---- MODULE Spec2Model ----
(***************************************************************************)
(* Model of Sleek/semantic_search.py: the chunk -> embed -> save -> index  *)
(* pipeline of main(), the retrieval and evaluation helpers and the        *)
(* embedding persistence functions.                                        *)
(*                                                                         *)
(* Representation.  A text is a sequence of paragraphs; a paragraph is     *)
(* represented by its length in characters (paragraphs are joined by the   *)
(* two-character separator the splitter prefers).  A table (DataFrame) is  *)
(* the sequence of its rows.  A file is [exists, rows].  An array is       *)
(* [shape, data].  Python positions are 0-based, TLA+ sequences 1-based:   *)
(* Python position p is TLA+ position p + 1.                               *)
(***************************************************************************)
EXTENDS Integers, Sequences, FiniteSets, TLC

VARIABLES
    pc,          \* main: the statement main() is about to run
    err,         \* main: the uncaught exception that ended the run ("" if none)
    fs,          \* the file system: path -> file
    book_df,     \* main: local book_df
    passages_df, \* main: local passages_df
    chunks_df,   \* main: local chunks_df (None or a table)
    model,       \* main: local model (TRUE once loaded)
    embeddings,  \* main: local embeddings
    index,       \* main: local index / the index under retrieval
    stdout,      \* what print() wrote
    chunks,      \* retrieval: the chunk collection handed to retrieve_top_passages
    query,       \* retrieval: last query text
    top_n,       \* retrieval: last top_n / k of the last search
    xq,          \* retrieval: the query vector of the last search
    D,           \* retrieval: distances[0] of the last search
    I,           \* retrieval: indices[0] of the last search
    results,     \* retrieval: value returned by retrieve_top_passages
    nn_gt,       \* evaluation: argument nn_gt
    ann,         \* evaluation: argument ann
    k,           \* evaluation: argument k
    recall,      \* evaluation: value returned by compute_recall_at_k
    saved,       \* persistence: path -> matrix of the last save_embeddings that returned
    loaded       \* persistence: outcome of the last load_embeddings

mainVars   == <<pc, err, book_df, passages_df, chunks_df, model, embeddings, stdout>>
searchVars == <<chunks, query, top_n, xq, D, I, results>>
evalVars   == <<nn_gt, ann, k, recall>>
storeVars  == <<saved, loaded>>
vars == <<mainVars, searchVars, evalVars, storeVars, fs, index>>

----------------------------------------------------------------------------
(* Bounds of the model *)
MaxRecords == 2     \* rows of book_df
MaxParas   == 2     \* paragraphs of one record's content
ShortLen   == 400   \* length of a short paragraph
LongLen    == 700   \* length of a long paragraph
MaxN       == 2     \* vectors in an index / chunks in a collection
MaxTopN    == 3     \* largest top_n asked of a search
MaxBatch   == 2     \* queries in an evaluation batch
MaxK       == 3     \* largest k of recall@k

----------------------------------------------------------------------------
(* Generic helpers *)
Min(a, b) == IF a < b THEN a ELSE b
Max(a, b) == IF a > b THEN a ELSE b

SeqsUpTo(S, n) == UNION {[1..m -> S] : m \in 0..n}

RECURSIVE SumSeq(_)
SumSeq(s) == IF s = <<>> THEN 0 ELSE Head(s) + SumSeq(Tail(s))

Range(s) == {s[i] : i \in 1..Len(s)}

\* Python  s[:n]
PySliceTo(s, n) ==
    IF n >= 0 THEN SubSeq(s, 1, Min(n, Len(s)))
              ELSE SubSeq(s, 1, Max(Len(s) + n, 0))

\* Python  s[idx]  on a list: defined for -len <= idx < len
PyIndexOk(s, idx) == idx >= 0 - Len(s) /\ idx < Len(s)
PyIndex(s, idx) == IF idx >= 0 THEN s[idx + 1] ELSE s[Len(s) + idx + 1]

----------------------------------------------------------------------------
(* Values *)
None     == [none |-> TRUE,  rows |-> <<>>]
Table(r) == [none |-> FALSE, rows |-> r]

Absent   == [exists |-> FALSE, rows |-> <<>>]
File(r)  == [exists |-> TRUE,  rows |-> r]

NoArray  == [shape |-> <<>>, data |-> <<>>]
NoIndex  == [built |-> FALSE, d |-> 0, xb |-> <<>>]

NaN == <<-1>>   \* what read_csv yields for an empty text field

BookPath     == "data/book_df.csv"
PassagesPath == "data/passages_df.csv"
ChunksPath   == "data/chunks.csv"
EmbPath      == "data/embeddings.pkl"
OtherPath    == "data/other.pkl"
Paths == {BookPath, PassagesPath, ChunksPath, EmbPath, OtherPath}

StrIds   == {1, 2}
Paras    == {ShortLen, LongLen}
Contents == SeqsUpTo(Paras, MaxParas)
Records  == {<<id, c>> : id \in StrIds, c \in Contents}
Tables   == SeqsUpTo(Records, MaxRecords)

----------------------------------------------------------------------------
(* load_df: pd.read_csv of the file at dir_path/file_name.file_fmt.  An    *)
(* empty text field comes back as NaN, every other field as written.       *)
read_csv(rows) ==
    [i \in 1..Len(rows) |->
        <<rows[i][1], IF rows[i][2] = <<>> THEN NaN ELSE rows[i][2]>>]

load_df(files, file_path) == read_csv(files[file_path].rows)

----------------------------------------------------------------------------
(* create_splits: RecursiveCharacterTextSplitter(chunk_size, chunk_overlap) *)
(* .split_text(texts).  The text is cut at the paragraph separator and the  *)
(* pieces are merged greedily while the merged length, separators included, *)
(* does not exceed chunk_size.  An overlap below one character keeps no     *)
(* piece of the previous chunk.                                             *)
RECURSIVE merge_splits(_, _, _, _)
merge_splits(splits, current_doc, total, chunk_size) ==
    IF splits = <<>>
    THEN IF current_doc = <<>> THEN <<>> ELSE <<current_doc>>
    ELSE LET d   == Head(splits)
             sep == IF Len(current_doc) > 0 THEN 2 ELSE 0
         IN IF total + d + sep > chunk_size /\ Len(current_doc) > 0
            THEN <<current_doc>> \o merge_splits(Tail(splits), <<d>>, d, chunk_size)
            ELSE merge_splits(Tail(splits), Append(current_doc, d),
                              total + d + sep, chunk_size)

create_splits(texts, split_chunk_size, split_overlap) ==
    merge_splits(texts, <<>>, 0, split_chunk_size)

\* len(texts): characters of the text, separators included
TextLen(texts) == SumSeq(texts) + 2 * Max(Len(texts) - 1, 0)

\* the line create_splits prints
SplitPrint(texts, split_chunk_size, split_overlap) ==
    [msg |-> "Created chunks",
     n   |-> Len(create_splits(texts, split_chunk_size, split_overlap)),
     of  |-> TextLen(texts)]

CsvFailPrint == [msg |-> "chunks CSV file could not be created.", n |-> 0, of |-> 0]

----------------------------------------------------------------------------
(* create_book_chunks, lines 126-131: the list `chunks` of                 *)
(* (chapter_idx, j, c_chunk), j enumerating the chunks of one record.      *)
\* faulty variant: the sequence index counted from 1
RecordChunks_OneBased(rec, split_chunk_size, split_overlap) ==
    LET chapter_chunks == create_splits(rec[2], split_chunk_size, split_overlap)
    IN [j \in 1..Len(chapter_chunks) |-> <<rec[1], j, chapter_chunks[j]>>]

RecordChunks(rec, split_chunk_size, split_overlap) ==
    LET chapter_chunks == create_splits(rec[2], split_chunk_size, split_overlap)
    IN [j \in 1..Len(chapter_chunks) |-> <<rec[1], j - 1, chapter_chunks[j]>>]

RECURSIVE BookChunks(_, _, _)
BookChunks(df, split_chunk_size, split_overlap) ==
    IF df = <<>> THEN <<>>
    ELSE RecordChunks(Head(df), split_chunk_size, split_overlap)
         \o BookChunks(Tail(df), split_chunk_size, split_overlap)

\* position (1-based) of the first record whose content create_splits rejects
\* (a NaN is no string), 0 if there is none
FirstBad(df) ==
    IF \E i \in 1..Len(df) : df[i][2] = NaN
    THEN CHOOSE i \in 1..Len(df) : df[i][2] = NaN /\ \A h \in 1..(i - 1) : df[h][2] # NaN
    ELSE 0

BookPrints(df, split_chunk_size, split_overlap) ==
    [i \in 1..Len(df) |-> SplitPrint(df[i][2], split_chunk_size, split_overlap)]

----------------------------------------------------------------------------
(* The embedding model: a deterministic map from a text to a vector of a   *)
(* fixed dimension (here: how many short and how many long paragraphs).    *)
Encode(text) ==
    << Cardinality({i \in 1..Len(text) : text[i] = ShortLen}),
       Cardinality({i \in 1..Len(text) : text[i] # ShortLen}) >>

\* model.encode(sentences) on a batch: one row per sentence, in order; an
\* empty batch gives an array of shape (0,)
EncodeBatch(sentences) ==
    [shape |-> IF Len(sentences) = 0 THEN <<0>> ELSE <<Len(sentences), 2>>,
     data  |-> [i \in 1..Len(sentences) |-> Encode(sentences[i])]]

\* dataset[text_field] for text_field = 'chunk': the third column
Column(rows) == [i \in 1..Len(rows) |-> rows[i][3]]

embedd_dataset(dataset, rec_num) ==
    EncodeBatch(PySliceTo(Column(dataset.rows), rec_num))

----------------------------------------------------------------------------
(* pickle.dump / pickle.load of an array: the shape and the elements in    *)
(* row-major order.                                                        *)
RECURSIVE Flatten(_)
Flatten(data) == IF data = <<>> THEN <<>> ELSE Head(data) \o Flatten(Tail(data))

PickleDump(a) == <<a.shape, Flatten(a.data)>>

PickleLoad(rows) ==
    LET shape == rows[1]
        flat  == rows[2]
    IN [shape |-> shape,
        data  |-> IF Len(shape) = 2
                  THEN [i \in 1..shape[1] |->
                           SubSeq(flat, (i - 1) * shape[2] + 1, i * shape[2])]
                  ELSE <<>>]

\* faulty variant: the file_path argument ignored, the default path written
save_embeddings_DefaultPath(files, emb, file_path) ==
    [files EXCEPT !["data/embeddings.pkl"] = File(PickleDump(emb))]

\* save_embeddings: the file system after a save that returned
save_embeddings(files, emb, file_path) ==
    [files EXCEPT ![file_path] = File(PickleDump(emb))]

\* load_embeddings can return only from a file that holds a whole pickle
Loadable(files, file_path) ==
    files[file_path].exists /\ Len(files[file_path].rows) = 2

load_embeddings(files, file_path) == PickleLoad(files[file_path].rows)

----------------------------------------------------------------------------
(* build_faiss_flatl2_index: IndexFlatL2(dim[1]) followed by add.          *)
\* faulty variant: the last row of the matrix is not added
build_faiss_flatl2_index_DropLast(emb, dim) ==
    [built |-> TRUE, d |-> dim[2], xb |-> PySliceTo(emb.data, -1)]

build_faiss_flatl2_index(emb, dim) ==
    [built |-> TRUE, d |-> dim[2], xb |-> emb.data]

----------------------------------------------------------------------------
(* main(), lines 158-173, one action per statement.  An exception that     *)
(* main does not catch ends the run: pc = "failed" and no statement of     *)
(* main runs after it.                                                     *)
Order == <<"load_book", "load_passages", "chunk", "model", "embed", "save", "build", "done">>

\* faulty variant: the exception is swallowed and main goes on with its next statement
Raise_Swallowed(e) ==
    /\ err' = e
    /\ pc' = Order[1 + CHOOSE i \in 1..Len(Order) : Order[i] = pc]

Raise(e) == pc' = "failed" /\ err' = e

Goto(next) == pc' = next /\ err' = err

\* a chunk file left by an earlier run
OldChunks == File(<< <<1, 0, <<LongLen>>>> >>)

InitFiles ==
    {[p \in Paths |-> CASE p = BookPath     -> b
                        [] p = PassagesPath -> q
                        [] p = ChunksPath   -> c
                        [] OTHER            -> Absent] :
        b \in {Absent} \cup {File(t) : t \in Tables},
        q \in {Absent, File(<< <<1, <<ShortLen>>>> >>)},
        c \in {Absent, OldChunks}}

IdleSearch ==
    /\ chunks = <<>> /\ query = <<>> /\ top_n = 0 /\ xq = <<>>
    /\ D = <<>> /\ I = <<>>
    /\ results = [done |-> FALSE, raised |-> "", pairs |-> <<>>]

IdleEval ==
    /\ nn_gt = <<>> /\ ann = <<>> /\ k = 1
    /\ recall = [done |-> FALSE, raised |-> "", value |-> 0]

IdleStore ==
    /\ saved = [p \in Paths |-> NoArray]
    /\ loaded = [done |-> FALSE, raised |-> "", path |-> "", value |-> NoArray]

IdleMain ==
    /\ pc = "idle" /\ err = "" /\ book_df = <<>> /\ passages_df = <<>>
    /\ chunks_df = None /\ model = FALSE /\ embeddings = NoArray /\ stdout = <<>>

Init ==
    /\ pc = "load_book" /\ err = ""
    /\ fs \in InitFiles
    /\ book_df = <<>> /\ passages_df = <<>> /\ chunks_df = None
    /\ model = FALSE /\ embeddings = NoArray /\ index = NoIndex /\ stdout = <<>>
    /\ IdleSearch /\ IdleEval /\ IdleStore

\* line 159
MainLoadBook ==
    /\ pc = "load_book"
    /\ IF fs[BookPath].exists
       THEN book_df' = load_df(fs, BookPath) /\ Goto("load_passages")
       ELSE book_df' = book_df /\ Raise("FileNotFoundError")
    /\ UNCHANGED <<passages_df, chunks_df, model, embeddings, stdout, fs, index,
                   searchVars, evalVars, storeVars>>

\* line 160
MainLoadPassages ==
    /\ pc = "load_passages"
    /\ IF fs[PassagesPath].exists
       THEN passages_df' = load_df(fs, PassagesPath) /\ Goto("chunk")
       ELSE passages_df' = passages_df /\ Raise("FileNotFoundError")
    /\ UNCHANGED <<book_df, chunks_df, model, embeddings, stdout, fs, index,
                   searchVars, evalVars, storeVars>>

\* what the try block of create_book_chunks (lines 132-137) can do to the chunk
\* file and return: the write succeeds and the table is returned, or it raises
\* before or while writing, the bare except prints and the function falls off
\* its end, returning None
TryWriteChunks(files, rows) ==
    {[files |-> [files EXCEPT ![ChunksPath] = File(rows)], ret |-> Table(rows), printed |-> <<>>]}
    \cup
    {[files |-> f, ret |-> None, printed |-> <<CsvFailPrint>>] :
        f \in {files} \cup {[files EXCEPT ![ChunksPath] = File(SubSeq(rows, 1, n))] :
                                n \in 0..(Len(rows) - 1)}}

\* line 162: create_book_chunks(book_df, split_chunk_size=1000, split_overlap=0.3)
create_book_chunks(files, df, split_chunk_size, split_overlap) ==
    TryWriteChunks(files, BookChunks(df, split_chunk_size, split_overlap))

MainChunk ==
    /\ pc = "chunk"
    /\ IF FirstBad(book_df) # 0
       THEN /\ stdout' = stdout \o BookPrints(SubSeq(book_df, 1, FirstBad(book_df) - 1), 1000, 0)
            /\ Raise("TypeError")
            /\ UNCHANGED <<chunks_df, fs>>
       ELSE \E out \in create_book_chunks(fs, book_df, 1000, 0) :
            /\ fs' = out.files
            /\ chunks_df' = out.ret
            /\ stdout' = stdout \o BookPrints(book_df, 1000, 0) \o out.printed
            /\ Goto("model")
    /\ UNCHANGED <<book_df, passages_df, model, embeddings, index,
                   searchVars, evalVars, storeVars>>

\* line 163: embedding_model() loads the pretrained model, or fails to
MainModel ==
    /\ pc = "model"
    /\ \/ model' = TRUE /\ Goto("embed")
       \/ model' = model /\ Raise("OSError")
    /\ UNCHANGED <<book_df, passages_df, chunks_df, embeddings, stdout, fs, index,
                   searchVars, evalVars, storeVars>>

\* lines 165-170: embedd_dataset(dataset=chunks_df, rec_num=-1, ...)
MainEmbed ==
    /\ pc = "embed"
    /\ IF chunks_df.none
       THEN embeddings' = embeddings /\ Raise("TypeError")
       ELSE embeddings' = embedd_dataset(chunks_df, -1) /\ Goto("save")
    /\ UNCHANGED <<book_df, passages_df, chunks_df, model, stdout, fs, index,
                   searchVars, evalVars, storeVars>>

\* line 171: save_embeddings(embeddings): the file is written, or open() fails and
\* leaves it alone, or the write fails after open() has truncated it
MainSave ==
    /\ pc = "save"
    /\ \/ fs' = save_embeddings(fs, embeddings, EmbPath) /\ Goto("build")
       \/ fs' = fs /\ Raise("OSError")
       \/ fs' = [fs EXCEPT ![EmbPath] = File(<<>>)] /\ Raise("OSError")
    /\ UNCHANGED <<book_df, passages_df, chunks_df, model, embeddings, stdout, index,
                   searchVars, evalVars, storeVars>>

\* lines 172-173: dim[1] of a one-dimensional shape is an IndexError
MainBuild ==
    /\ pc = "build"
    /\ IF Len(embeddings.shape) < 2
       THEN index' = index /\ Raise("IndexError")
       ELSE index' = build_faiss_flatl2_index(embeddings, embeddings.shape) /\ Goto("done")
    /\ UNCHANGED <<book_df, passages_df, chunks_df, model, embeddings, stdout, fs,
                   searchVars, evalVars, storeVars>>

Next ==
    \/ MainLoadBook
    \/ MainLoadPassages
    \/ MainChunk
    \/ MainModel
    \/ MainEmbed
    \/ MainSave
    \/ MainBuild

Spec == Init /\ [][Next]_vars

----------------------------------------------------------------------------
(* compute_recall_at_k, line 92.  The value is kept in thousandths:        *)
(* round(x, 3) of x = S / (k * n) is the integer nearest to 1000 * x, ties *)
(* to even.                                                                *)
RoundHalfEven(num, den) ==
    LET q == num \div den
        r == num % den
    IN IF 2 * r < den THEN q
       ELSE IF 2 * r > den THEN q + 1
       ELSE IF q % 2 = 0 THEN q ELSE q + 1

\* faulty variant: union in place of intersection
Hits_Union(gt_row, ann_row) == Cardinality(Range(ann_row) \cup Range(gt_row))

\* len(set(ann[i]) & set(nn_gt[i]))
Hits(gt_row, ann_row) == Cardinality(Range(ann_row) \cap Range(gt_row))

RECURSIVE SumHits(_, _, _)
\* sum of the hits of the queries i..len(ann)-1 (0-based i)
SumHits(gt, an, i) ==
    IF i >= Len(an) THEN 0
    ELSE Hits(PyIndex(gt, i), PyIndex(an, i)) + SumHits(gt, an, i + 1)

\* faulty variant: the queries counted by len(nn_gt) instead of len(ann)
compute_recall_at_k_GtLen(gt, an, kk) ==
    IF Len(gt) = 0
    THEN [done |-> TRUE, raised |-> "ZeroDivisionError", value |-> 0]
    ELSE IF Len(an) = 0
    THEN [done |-> TRUE, raised |-> "IndexError", value |-> 0]
    ELSE IF kk = 0
    THEN [done |-> TRUE, raised |-> "ZeroDivisionError", value |-> 0]
    ELSE IF Len(an) < Len(gt)
    THEN [done |-> TRUE, raised |-> "IndexError", value |-> 0]
    ELSE [done |-> TRUE, raised |-> "",
          value |-> RoundHalfEven(1000 * SumHits(gt, SubSeq(an, 1, Len(gt)), 0),
                                  kk * Len(gt))]

compute_recall_at_k(gt, an, kk) ==
    IF Len(an) = 0
    THEN [done |-> TRUE, raised |-> "ZeroDivisionError", value |-> 0]
    ELSE IF Len(gt) = 0
    THEN [done |-> TRUE, raised |-> "IndexError", value |-> 0]
    ELSE IF kk = 0
    THEN [done |-> TRUE, raised |-> "ZeroDivisionError", value |-> 0]
    ELSE IF Len(gt) < Len(an)
    THEN [done |-> TRUE, raised |-> "IndexError", value |-> 0]
    ELSE [done |-> TRUE, raised |-> "",
          value |-> RoundHalfEven(1000 * SumHits(gt, an, 0), kk * Len(an))]

\* result lists the evaluation is tried on: empty, single, duplicated, overlapping
Rows    == {<<>>, <<0>>, <<0, 0>>, <<0, 1>>, <<1, 2>>}
Batches == SeqsUpTo(Rows, MaxBatch)

NoRecall == [done |-> FALSE, raised |-> "", value |-> 0]

InitEval ==
    /\ IdleMain /\ IdleSearch /\ IdleStore
    /\ fs = [p \in Paths |-> Absent] /\ index = NoIndex
    /\ nn_gt \in Batches /\ ann \in Batches /\ k \in 0..MaxK
    /\ recall = NoRecall

ComputeRecall ==
    /\ ~recall.done
    /\ recall' = compute_recall_at_k(nn_gt, ann, k)
    /\ UNCHANGED <<nn_gt, ann, k, mainVars, searchVars, storeVars, fs, index>>

NextEval == ComputeRecall

SpecEval == InitEval /\ [][NextEval]_vars

----------------------------------------------------------------------------
(* The flat L2 index: index.search(x, k) for one query vector.  It returns *)
(* k distances and k positions, nearest first; an index that holds fewer   *)
(* than k vectors fills the remaining places with position -1 and the      *)
(* largest float.  The library does not say which of two equally distant   *)
(* vectors comes first.                                                    *)
FLT_MAX == 2147483647   \* the padding distance, above every distance of the model

SqDist(a, b) == SumSeq([i \in 1..Len(a) |-> (a[i] - b[i]) * (a[i] - b[i])])

\* the nearest-first selections of m stored positions (1-based)
Nearest(xb, x, m) ==
    {sel \in [1..m -> 1..Len(xb)] :
        /\ \A i, j \in 1..m : i < j =>
              /\ sel[i] # sel[j]
              /\ SqDist(xb[sel[i]], x) <= SqDist(xb[sel[j]], x)
        /\ \A p \in 1..Len(xb) :
              (\A i \in 1..m : sel[i] # p) =>
                  \A i \in 1..m : SqDist(xb[sel[i]], x) <= SqDist(xb[p], x)}

Search(idx, x, kk) ==
    LET m == Min(kk, Len(idx.xb))
    IN {[D |-> [i \in 1..kk |-> IF i <= m THEN SqDist(idx.xb[sel[i]], x) ELSE FLT_MAX],
         I |-> [i \in 1..kk |-> IF i <= m THEN sel[i] - 1 ELSE -1]] :
            sel \in Nearest(idx.xb, x, m)}

\* train_index: index.add(sentence_embeddings)
train_index(idx, sentence_embeddings) ==
    [idx EXCEPT !.xb = idx.xb \o sentence_embeddings.data]

\* line 103: [(chunks[idx], distances[0][i]) for i, idx in enumerate(indices[0])]
\* chunks is indexed as a Python list, so position -1 is its last element
Pairs(chks, found) ==
    IF \A i \in 1..Len(found.I) : PyIndexOk(chks, found.I[i])
    THEN [done |-> TRUE, raised |-> "",
          pairs |-> [i \in 1..Len(found.I) |-> <<PyIndex(chks, found.I[i]), found.D[i]>>]]
    ELSE [done |-> TRUE, raised |-> "IndexError", pairs |-> <<>>]

\* faulty variant: one neighbour too many asked of the index
retrieve_top_passages_OneMore(q, idx, chks, n) ==
    {[found |-> f, ret |-> Pairs(chks, f)] : f \in Search(idx, Encode(q), n + 1)}

\* lines 100-104: the searches retrieve_top_passages can make and what it returns
retrieve_top_passages(q, idx, chks, n) ==
    {[found |-> f, ret |-> Pairs(chks, f)] : f \in Search(idx, Encode(q), n)}

\* chunk texts of the collections and query texts of the searches
Texts   == {<<ShortLen>>, <<LongLen>>}
Queries == Texts \cup {<<ShortLen, ShortLen>>}
Vecs    == {Encode(t) : t \in Texts}
Matrices == {[shape |-> <<Len(d), 2>>, data |-> d] : d \in SeqsUpTo(Vecs, MaxN)}

NoResults == [done |-> FALSE, raised |-> "", pairs |-> <<>>]

InitSearch ==
    /\ pc = "idle" /\ err = "" /\ book_df = <<>> /\ passages_df = <<>>
    /\ chunks_df = None /\ model = TRUE /\ stdout = <<>>
    /\ embeddings \in Matrices
    /\ chunks \in SeqsUpTo(Texts, MaxN)
    /\ index = NoIndex
    /\ query = <<>> /\ top_n = 0 /\ xq = <<>> /\ D = <<>> /\ I = <<>>
    /\ results = NoResults
    /\ fs = [p \in Paths |-> Absent]
    /\ IdleEval /\ IdleStore

BuildIndex ==
    /\ ~index.built
    /\ index' = build_faiss_flatl2_index(embeddings, embeddings.shape)
    /\ UNCHANGED <<mainVars, searchVars, evalVars, storeVars, fs>>

TrainIndex ==
    /\ index.built
    /\ \E more \in Matrices :
          /\ Len(more.data) >= 1
          /\ Len(index.xb) + Len(more.data) <= MaxN
          /\ index' = train_index(index, more)
    /\ UNCHANGED <<mainVars, searchVars, evalVars, storeVars, fs>>

\* a direct index.search(x, k) for a vector x of the embedding matrix
SearchStored ==
    /\ index.built
    /\ \E i \in 1..Len(embeddings.data), kk \in 1..MaxTopN :
       \E f \in Search(index, embeddings.data[i], kk) :
          /\ xq' = embeddings.data[i] /\ top_n' = kk
          /\ D' = f.D /\ I' = f.I
          /\ query' = <<>> /\ results' = NoResults
    /\ UNCHANGED <<mainVars, chunks, evalVars, storeVars, fs, index>>

Retrieve ==
    /\ index.built
    /\ \E q \in Queries, n \in 0..MaxTopN :
          /\ query' = q /\ top_n' = n /\ xq' = Encode(q)
          /\ IF n = 0
             THEN /\ D' = <<>> /\ I' = <<>>
                  /\ results' = [done |-> TRUE, raised |-> "AssertionError", pairs |-> <<>>]
             ELSE \E out \in retrieve_top_passages(q, index, chunks, n) :
                  /\ D' = out.found.D /\ I' = out.found.I
                  /\ results' = out.ret
    /\ UNCHANGED <<mainVars, chunks, evalVars, storeVars, fs, index>>

NextSearch ==
    \/ BuildIndex
    \/ TrainIndex
    \/ SearchStored
    \/ Retrieve

SpecSearch == InitSearch /\ [][NextSearch]_vars

----------------------------------------------------------------------------
(* save_embeddings / load_embeddings, lines 147-155.                       *)
StorePaths  == {EmbPath, OtherPath}
StoreArrays ==
    { [shape |-> <<0>>,    data |-> <<>>],
      [shape |-> <<1, 2>>, data |-> << <<1, 0>> >>],
      [shape |-> <<2, 1>>, data |-> << <<1>>, <<0>> >>],
      [shape |-> <<2, 2>>, data |-> << <<1, 0>>, <<0, 1>> >>] }

NoLoad == [done |-> FALSE, raised |-> "", path |-> "", value |-> NoArray]

InitStore ==
    /\ IdleMain /\ IdleSearch /\ IdleEval
    /\ index = NoIndex
    /\ fs = [p \in Paths |-> Absent]
    /\ saved = [p \in Paths |-> NoArray]
    /\ loaded = NoLoad

\* the call returns; or open() raises and the file is as before; or the dump
\* raises after open() has emptied the file
Save ==
    \E p \in StorePaths, emb \in StoreArrays :
       /\ \/ /\ fs' = save_embeddings(fs, emb, p)
             /\ saved' = [saved EXCEPT ![p] = emb]
          \/ /\ fs' = fs
             /\ saved' = saved
          \/ /\ fs' = [fs EXCEPT ![p] = File(<<>>)]
             /\ saved' = saved
       /\ loaded' = NoLoad
       /\ UNCHANGED <<mainVars, searchVars, evalVars, index>>

Load ==
    \E p \in StorePaths :
       /\ loaded' =
            IF ~fs[p].exists
            THEN [done |-> TRUE, raised |-> "FileNotFoundError", path |-> p, value |-> NoArray]
            ELSE IF ~Loadable(fs, p)
            THEN [done |-> TRUE, raised |-> "EOFError", path |-> p, value |-> NoArray]
            ELSE [done |-> TRUE, raised |-> "", path |-> p, value |-> load_embeddings(fs, p)]
       /\ UNCHANGED <<mainVars, searchVars, evalVars, index, fs, saved>>

NextStore ==
    \/ Save
    \/ Load

SpecStore == InitStore /\ [][NextStore]_vars

----------------------------------------------------------------------------
(* Properties of main (specification Spec)                                 *)

AfterChunk == pc \in {"model", "embed", "save", "build", "done"}

\* C1 (as claimed): when the write of data/chunks.csv fails inside
\* create_book_chunks, the failure is reported, the chunks computed in memory
\* are handed to main, and main goes on to embed them.
C1_WriteFailureKeepsChunks ==
    CsvFailPrint \in Range(stdout) =>
        /\ chunks_df = Table(BookChunks(book_df, 1000, 0))
        /\ ~(pc = "failed" /\ err = "TypeError")

\* C2 (as claimed): embedd_dataset with rec_num = -1 returns one vector per
\* string of the text field, the i-th vector embedding the i-th string.
C2_OneVectorPerString ==
    pc \in {"save", "build", "done"} =>
        /\ Len(embeddings.data) = Len(chunks_df.rows)
        /\ \A i \in 1..Len(chunks_df.rows) :
              embeddings.data[i] = Encode(chunks_df.rows[i][3])

IdsOf(rows) == {rows[p][1] : p \in 1..Len(rows)}

\* for the parent identifier id, the chunk_id values are exactly 0..m-1, once each
ContiguousFor(rows, id) ==
    LET P == {p \in 1..Len(rows) : rows[p][1] = id}
    IN /\ {rows[p][2] : p \in P} = 0..(Cardinality(P) - 1)
       /\ \A p1, p2 \in P : rows[p1][2] = rows[p2][2] => p1 = p2

\* C3 (as claimed): for any input table, for every str_idx the chunk_id values of
\* its chunks are exactly 0..m-1, each once, so (str_idx, chunk_id) is unique.
C3_ContiguousPerParent ==
    ~chunks_df.none => \A id \in IdsOf(chunks_df.rows) : ContiguousFor(chunks_df.rows, id)

DistinctIds(df) == \A i, j \in 1..Len(df) : df[i][1] = df[j][1] => i = j

\* C3 (amended): the chunk_id of every chunk is 0 or one more than the chunk_id of
\* the chunk before it, which then carries the same str_idx; and when the str_idx
\* values of the input records are pairwise distinct, for every str_idx the
\* chunk_id values are exactly 0..m-1, each once.
C3_ContiguousPerRecord ==
    ~chunks_df.none =>
        LET rows == chunks_df.rows
        IN /\ \A p \in 1..Len(rows) :
                 \/ rows[p][2] = 0
                 \/ /\ p > 1
                    /\ rows[p - 1][1] = rows[p][1]
                    /\ rows[p - 1][2] + 1 = rows[p][2]
           /\ DistinctIds(book_df) =>
                 \A id \in IdsOf(rows) : ContiguousFor(rows, id)

C3_Witness ==
    /\ ~chunks_df.none
    /\ Len(book_df) = 2 /\ DistinctIds(book_df)
    /\ \E p \in 1..Len(chunks_df.rows) : chunks_df.rows[p][2] = 1

PcNext(p) == Order[1 + CHOOSE i \in 1..Len(Order) : Order[i] = p]

\* C6: the statements of main run in the fixed order load book_df, load
\* passages_df, chunk, load model, embed, save, build; once a statement raises
\* nothing runs after it; and a file is written only by its own statement:
\* data/chunks.csv only by the chunk step, data/embeddings.pkl only by the save
\* step, the input tables never.
C6_Step ==
    /\ pc \notin {"failed", "done"}
    /\ pc' \in {PcNext(pc), "failed"}
    /\ (err' # "") <=> (pc' = "failed")
    /\ pc # "chunk" => fs'[ChunksPath] = fs[ChunksPath]
    /\ pc # "save" => fs'[EmbPath] = fs[EmbPath]
    /\ fs'[BookPath] = fs[BookPath] /\ fs'[PassagesPath] = fs[PassagesPath]

C6_OrderedAndArtifactsKept == [][C6_Step]_vars

\* the run failed at the save step and the chunk file written before is in place
C6_Witness ==
    /\ pc = "failed" /\ err = "OSError" /\ model
    /\ embeddings # NoArray
    /\ Len(chunks_df.rows) >= 1
    /\ fs[ChunksPath] = File(chunks_df.rows)

----------------------------------------------------------------------------
(* Properties of compute_recall_at_k (specification SpecEval)              *)

Returned == recall.done /\ recall.raised = ""

SameLists == Len(nn_gt) = Len(ann) /\ \A i \in 1..Len(ann) : ann[i] = nn_gt[i]

Disjoint ==
    Len(nn_gt) = Len(ann) /\ \A i \in 1..Len(ann) : Range(ann[i]) \cap Range(nn_gt[i]) = {}

\* C5 (as claimed): recall is 1.0 whenever the approximate list equals the
\* ground-truth list for every query, and 0.0 whenever the two lists share no
\* index, for every non-empty batch and k >= 1.
C5_OneWhenEqualZeroWhenDisjoint ==
    (recall.done /\ Len(ann) >= 1 /\ k >= 1) =>
        /\ SameLists => Returned /\ recall.value = 1000
        /\ Disjoint => Returned /\ recall.value = 0

\* C5 (amended): recall is 1.0 whenever, for every query, the approximate list
\* equals the ground-truth list and holds exactly k distinct indices, and 0.0
\* whenever the two lists share no index.
C5_OneWhenEqualWithKDistinct ==
    (recall.done /\ Len(ann) >= 1 /\ k >= 1) =>
        /\ (SameLists /\ \A i \in 1..Len(ann) : Cardinality(Range(ann[i])) = k)
              => Returned /\ recall.value = 1000
        /\ Disjoint => Returned /\ recall.value = 0

C5_Witness ==
    /\ Returned /\ Len(ann) = 2 /\ k = 2 /\ SameLists
    /\ ann[1] # ann[2]
    /\ \A i \in 1..Len(ann) : Cardinality(Range(ann[i])) = k
    /\ recall.value = 1000

\* C10: for a non-empty batch and k >= 1, when every approximate list has at
\* most k entries the recall lies in [0, 1]; it is the recall of the first
\* len(ann) ground-truth rows; and a ground-truth batch longer than the
\* approximate one is accepted without complaint.
C10_RangeAndPrefix ==
    (recall.done /\ Len(ann) >= 1 /\ k >= 1 /\ Len(nn_gt) >= Len(ann)) =>
        /\ Returned
        /\ recall = compute_recall_at_k(SubSeq(nn_gt, 1, Len(ann)), ann, k)
        /\ (\A i \in 1..Len(ann) : Len(ann[i]) <= k) =>
              (recall.value >= 0 /\ recall.value <= 1000)

C10_Witness ==
    /\ Returned /\ k = 2
    /\ Len(ann) = 1 /\ Len(nn_gt) = 2
    /\ ann[1] = <<0, 0>> /\ nn_gt[1] = <<0, 1>> /\ nn_gt[2] = <<1, 2>>
    /\ recall.value = 500

----------------------------------------------------------------------------
(* Properties of the index and of retrieve_top_passages (SpecSearch)       *)

Retrieved == results.done /\ results.raised = ""

\* C4: whenever retrieve_top_passages returns, it returns at most top_n pairs
\* and their distances are non-decreasing, also when the index holds fewer than
\* top_n vectors.
C4_AtMostTopNAscending ==
    Retrieved =>
        /\ Len(results.pairs) <= top_n
        /\ \A i, j \in 1..Len(results.pairs) :
              i < j => results.pairs[i][2] <= results.pairs[j][2]

C4_Witness ==
    /\ Retrieved
    /\ Len(index.xb) = 2 /\ top_n = 3
    /\ Len(results.pairs) = 3
    /\ results.pairs[1][2] < results.pairs[2][2]

\* the last call was a search for one neighbour of the vector at position i
\* (1-based) of the embedding matrix the index was built from
SearchedStored(i) ==
    /\ index.built /\ top_n = 1 /\ ~results.done /\ Len(I) = 1
    /\ i \in 1..Len(embeddings.data) /\ xq = embeddings.data[i]

\* C8 (as claimed): a k=1 search of the flat index for the vector at position i
\* returns position i at distance 0, for every position i.
C8_SelfIsNearest ==
    \A i \in 1..Len(embeddings.data) :
        SearchedStored(i) => (I[1] = i - 1 /\ D[1] = 0)

\* C8 (amended): such a search returns at distance 0 a position that holds a
\* vector equal to the query; it is position i when no other position of the
\* index holds that vector.
C8_SelfOrTwinIsNearest ==
    \A i \in 1..Len(embeddings.data) :
        SearchedStored(i) =>
            /\ D[1] = 0
            /\ I[1] >= 0 /\ I[1] < Len(index.xb)
            /\ index.xb[I[1] + 1] = xq
            /\ (\A j \in 1..Len(index.xb) : index.xb[j] = xq => j = i) => I[1] = i - 1

C8_Witness ==
    /\ SearchedStored(2)
    /\ Len(index.xb) = 2 /\ index.xb[1] # index.xb[2]
    /\ I[1] = 1 /\ D[1] = 0

\* the chunk collection is ordered as the vectors of the index
Aligned ==
    /\ Len(chunks) = Len(index.xb)
    /\ \A i \in 1..Len(chunks) : Encode(chunks[i]) = index.xb[i]

\* C9 (as claimed): with the chunks ordered as the indexed vectors, every
\* returned pair holds the chunk at a position the search returned for a stored
\* vector, with the distance reported for it.
C9_PairsComeFromStoredPositions ==
    (Retrieved /\ Aligned) =>
        \A i \in 1..Len(results.pairs) :
            /\ I[i] >= 0 /\ I[i] < Len(index.xb)
            /\ results.pairs[i] = <<chunks[I[i] + 1], D[i]>>

----------------------------------------------------------------------------
(* Properties of save_embeddings / load_embeddings (SpecStore)             *)

\* C7: whenever load_embeddings(p) returns, it returns the matrix passed to the
\* most recent save_embeddings call on p that returned; saves to another path do
\* not change it.
C7_RoundTrip ==
    (loaded.done /\ loaded.raised = "") => loaded.value = saved[loaded.path]

C7_Witness ==
    /\ loaded.done /\ loaded.raised = "" /\ loaded.path = EmbPath
    /\ loaded.value.shape = <<2, 1>>
    /\ saved[OtherPath].shape = <<1, 2>>
    /\ fs[OtherPath].exists

====
